---- MODULE Spec2Model ----
(***************************************************************************)
(* Food inventory backend (Express + MongoDB).                             *)
(*                                                                         *)
(* Two servers are modelled, selected by the variable `lineage`:           *)
(*   "numeric" : src/server.js            (PUT /update/:id, quantity)      *)
(*   "expiry"  : src/unnamed/part_000:1-263 (PATCH /update/:id, expiryDate,*)
(*               isValid check in DELETE, a delete/all route)              *)
(* src/unnamed/part_000:265-516 repeats the handlers of the expiry server  *)
(* verbatim (with comments added) and registers no delete/all route.       *)
(*                                                                         *)
(* JavaScript primitives and arrays are tagged records [t |-> type, ...];  *)
(* an object is the record of its properties (no property is named t).     *)
(* A string is the sequence of its UTF-16 code units, each written as a    *)
(* string: a printable ASCII character as itself, TAB, LF, FF and CR as    *)
(* "\t", "\n", "\f" and "\r", and every other code unit as the six          *)
(* characters of its escape, "\\u00A0" for U+00A0.                          *)
(* The MongoDB collection is a sequence of documents in insertion order.   *)
(* No file of the repository pins the mongodb driver: findOneAndDelete     *)
(* resolves to {value: doc|null} (drivers up to 5.x) or to doc|null        *)
(* (6.x), and each DELETE by id runs under either of the two. Undefined    *)
(* fields are serialised as null.                                          *)
(*                                                                         *)
(* A handler runs to its first await and is suspended there; its store     *)
(* call is atomic, and the handler resumes, to its next await or to its    *)
(* response, in a later step. Validations, and the exception of            *)
(* new ObjectId(id), are answered in the step that runs the handler.       *)
(*                                                                         *)
(* Specifications:                                                         *)
(*   Spec     : every route, from an empty collection; requests are        *)
(*              handled while other handlers are suspended                 *)
(*   SpecAgg  : the inventory aggregation on stores whose names and brands *)
(*              are made of digits and of the separator                    *)
(*   SpecConc : one request per client, all in flight together, each       *)
(*              client keeping its answer                                  *)
(***************************************************************************)
EXTENDS Integers, Sequences, FiniteSets, TLC

VARIABLES lineage, store, nextId, req, res, scanned, zeroed, conc

vars == <<lineage, store, nextId, req, res, scanned, zeroed, conc>>

(* Number of insertOne calls explored. *)
MaxInserts == 2

(* Number of requests in flight at the same time. *)
NumClients == 2

(* Number of records stored before the concurrent requests arrive. *)
ConcRecords == 1

-----------------------------------------------------------------------------
(* JavaScript values *)

Undefined == [t |-> "undefined"]
Null == [t |-> "null"]
Str(s) == [t |-> "string", v |-> s]
Bool(b) == [t |-> "boolean", v |-> b]
Arr(xs) == [t |-> "array", v |-> xs]
NaN == [t |-> "NaN"]

(* Numbers. Num(n) is the integer n, for integers of fewer than ten decimal   *)
(* digits (-0 is Num(0): the code never tells them apart). Every other finite *)
(* number is Real(sign, mant, exp): the Number nearest to sign * mant *       *)
(* 10^exp, which is neither 0 nor infinite; mant is a string of decimal       *)
(* digits without a leading or trailing zero. The value of a non-decimal      *)
(* literal of more than 30 bits is NonDecimal(radix, digits): the Number      *)
(* nearest to the integer that the digits denote in that radix, which is not  *)
(* infinite. The code compares numbers with 0 only, so which of these are     *)
(* the same Number is not computed.                                           *)
Num(n) == [t |-> "number", v |-> n]
Real(sign, mant, exp) == [t |-> "number", sign |-> sign, mant |-> mant, exp |-> exp]
NonDecimal(radix, digits) == [t |-> "number", sign |-> 1, radix |-> radix, digits |-> digits]
Infinity(sign) == [t |-> "number", inf |-> sign]

(* -1, 0 or 1 *)
Sign(x) ==
  IF "v" \in DOMAIN x THEN (IF x.v < 0 THEN 0 - 1 ELSE IF x.v > 0 THEN 1 ELSE 0)
  ELSE IF "inf" \in DOMAIN x THEN x.inf
  ELSE x.sign

(* An object (a document, a JSON object) carries no type tag. *)
IsObject(x) == "t" \notin DOMAIN x

(* typeof and Array.isArray, on any value *)
HasType(x, type) == ~IsObject(x) /\ x.t = type

IsString(x) == HasType(x, "string")
IsNumber(x) == HasType(x, "number")
IsArray(x) == HasType(x, "array")
IsUndefined(x) == HasType(x, "undefined")
IsNull(x) == HasType(x, "null")

(* ToBoolean: undefined, null, 0, NaN and "" are falsy; objects are truthy. *)
Truthy(x) ==
  IF IsObject(x) THEN TRUE
  ELSE CASE x.t = "undefined" -> FALSE
         [] x.t = "null" -> FALSE
         [] x.t = "NaN" -> FALSE
         [] x.t = "number" -> Sign(x) # 0
         [] x.t = "boolean" -> x.v
         [] x.t = "string" -> Len(x.v) > 0
         [] OTHER -> TRUE

(* The WhiteSpace and LineTerminator code points, which trim strips: TAB, LF, *)
(* VT, FF, CR, SP, NBSP, U+1680, U+2000..U+200A, U+2028, U+2029, U+202F,      *)
(* U+205F, U+3000 and U+FEFF.                                                *)
WhiteSpace ==
  {"\t", "\n", "\\u000B", "\f", "\r", " ", "\\u00A0", "\\u1680", "\\u2000",
   "\\u2001", "\\u2002", "\\u2003", "\\u2004", "\\u2005", "\\u2006",
   "\\u2007", "\\u2008", "\\u2009", "\\u200A", "\\u2028", "\\u2029",
   "\\u202F", "\\u205F", "\\u3000", "\\uFEFF"}

IsSpace(c) == c \in WhiteSpace

(* The least and the greatest element of a non-empty set of integers *)
Least(S) == CHOOSE i \in S : \A j \in S : i <= j

Greatest(S) == CHOOSE i \in S : \A j \in S : j <= i

(* The positions of s whose character is not in cs *)
Outside(s, cs) == {i \in 1..Len(s) : s[i] \notin cs}

(* s without its leading characters that are in cs *)
StripStart(s, cs) ==
  IF Outside(s, cs) = {} THEN <<>> ELSE SubSeq(s, Least(Outside(s, cs)), Len(s))

(* s without its trailing characters that are in cs *)
StripEnd(s, cs) ==
  IF Outside(s, cs) = {} THEN <<>> ELSE SubSeq(s, 1, Greatest(Outside(s, cs)))

trimStart(s) == StripStart(s, WhiteSpace)

trimEnd(s) == StripEnd(s, WhiteSpace)

(* String.prototype.trim *)
trim(s) == trimEnd(trimStart(s))

(* Marker for an exception raised while evaluating an expression. *)
Thrown == [t |-> "thrown"]

IsThrown(x) == HasType(x, "thrown")

(* x ? x.trim() : ''   (x.trim is not a function when x is truthy and no    *)
(* string: a number, true, an array, an object)                              *)
TrimOrEmpty(x) ==
  IF Truthy(x)
  THEN (IF IsString(x) THEN Str(trim(x.v)) ELSE Thrown)
  ELSE Str(<<>>)

(* obj.f for an object: undefined when it has no such property *)
Field(obj, f) == IF f \in DOMAIN obj THEN obj[f] ELSE Undefined

(* x.f for any value and a name f that no primitive and no array defines:   *)
(* a TypeError on null and undefined.                                       *)
Property(x, f) ==
  IF IsObject(x) THEN Field(x, f)
  ELSE IF IsNull(x) \/ IsUndefined(x) THEN Thrown
  ELSE Undefined

(* x || y *)
Or(x, y) == IF Truthy(x) THEN x ELSE y

(* BSON serialisation of a field value: undefined is written as null. *)
Serialize(x) == IF IsUndefined(x) THEN Null ELSE x

-----------------------------------------------------------------------------
(* The collection *)

Ids(st) == {st[i]._id : i \in 1..Len(st)}

HasId(st, oid) == oid \in Ids(st)

IndexOf(st, oid) == CHOOSE i \in 1..Len(st) : st[i]._id = oid

(* collection.findOne({_id}) : the document or null *)
FindOne(st, oid) == IF HasId(st, oid) THEN st[IndexOf(st, oid)] ELSE Null

RemoveAt(st, i) == SubSeq(st, 1, i - 1) \o SubSeq(st, i + 1, Len(st))

(* An id generator that hands out the lowest id no stored document holds. *)
ReuseObjectId(st, nid) == CHOOSE n \in 1..nid : n \notin Ids(st) /\ \A m \in 1..(n - 1) : m \in Ids(st)

(* new ObjectId() generated by insertOne: never an id generated before. *)
NewObjectId(st, nid) == nid

-----------------------------------------------------------------------------
(* Requests and responses *)

NoRequest == [method |-> "none"]
NoResponse == [status |-> 0]

(* res.status(code).json(body) *)
Json(code, body) == [status |-> code, body |-> body]

-----------------------------------------------------------------------------
(* POST /api/food/add *)

(* The document handed to insertOne, as stored. *)
NewDocument(lin, oid, name, ingredients, brands, quantity, categories, imageUrl, url, expiryDate) ==
  IF lin = "numeric"
  THEN [_id |-> oid, name |-> name, ingredients |-> Serialize(ingredients),
        brands |-> brands, quantity |-> quantity, categories |-> Serialize(categories),
        imageUrl |-> Serialize(imageUrl), url |-> Serialize(url)]
  ELSE [_id |-> oid, name |-> name, ingredients |-> Serialize(ingredients),
        brands |-> brands, quantity |-> quantity, categories |-> Serialize(categories),
        imageUrl |-> Serialize(imageUrl), url |-> Serialize(url),
        expiryDate |-> Serialize(expiryDate)]

missingFields(trimmedName, trimmedBrands, trimmedQuantity) ==
  [name |-> Truthy(trimmedName),
   brands |-> Truthy(trimmedBrands),
   quantity |-> Truthy(trimmedQuantity)]

(* Outcome of a handler run up to its first await: the collection, the id   *)
(* counter, and the response sent or the await at which the handler is       *)
(* suspended.                                                                *)
Outcome(st, nid, r) == [store |-> st, nextId |-> nid, res |-> r]

(* The add handler suspended at `await collection.insertOne(...)`: the call  *)
(* has completed, and the continuation calls findOne.                        *)
AwaitingFindOne(insertedId) == [await |-> "findOne", insertedId |-> insertedId]

(* A handler suspended at the await of its one store call (or of the call to *)
(* the upstream API): the call has completed, and response is what the       *)
(* continuation sends for its result.                                        *)
AwaitingResult(response) == [await |-> "result", res |-> response]

IsAwaiting(r) == "await" \in DOMAIN r

(* The handler after `await collection.insertOne(...)`: the re-read, on the *)
(* collection as it is at that moment, and the 201 that the continuation of *)
(* `await collection.findOne(...)` sends.                                   *)
AddReread(st, insertedId) ==
  LET insertedItem == FindOne(st, insertedId)
  IN Json(201, [message |-> "Food added to inventory successfully",
                item |-> insertedItem])

(* The handler up to and including insertOne: it has answered (400, or the  *)
(* uncaught exception), or it has inserted and awaits the re-read.          *)
AddHandler(lin, st, nid, body, uncaught) ==
  LET trimmedBrands == TrimOrEmpty(Field(body, "brands"))
      trimmedName == TrimOrEmpty(Field(body, "name"))
      trimmedQuantity == TrimOrEmpty(Field(body, "quantity"))
  IN IF IsThrown(trimmedBrands) \/ IsThrown(trimmedName) \/ IsThrown(trimmedQuantity)
     THEN Outcome(st, nid, uncaught)
     ELSE IF ~Truthy(trimmedName) \/ ~Truthy(trimmedBrands) \/ ~Truthy(trimmedQuantity)
     THEN Outcome(st, nid,
            Json(400, [error |-> "Missing required fields",
                       missingFields |-> missingFields(trimmedName, trimmedBrands, trimmedQuantity)]))
     ELSE LET insertedId == NewObjectId(st, nid)
              st2 == Append(st, NewDocument(lin, insertedId, trimmedName,
                                            Field(body, "ingredients"), trimmedBrands,
                                            trimmedQuantity, Field(body, "categories"),
                                            Field(body, "imageUrl"), Field(body, "url"),
                                            Field(body, "expiryDate")))
          IN Outcome(st2, nid + 1, AwaitingFindOne(insertedId))

(* A rejection of the async handler that no try/catch covers: Express 4     *)
(* sends nothing, Express 5 forwards it to the default error handler (500). *)
UncaughtOutcomes == {NoResponse, Json(500, [error |-> "Internal Server Error"])}

-----------------------------------------------------------------------------
(* ObjectId: 24-character hex strings in the URL, 12-byte values in the store. *)
(* The well-formed hex strings are those of the ids that insertOne generates.  *)

OidSpace == 1..MaxInserts

toHexString(oid) == ToString(oid)

(* ObjectId.isValid(id) for a string taken from the URL *)
isValid(id) == \E oid \in OidSpace : toHexString(oid) = id

(* new ObjectId(id): the value, or an exception for a malformed string *)
ObjectId(id) ==
  IF isValid(id)
  THEN [t |-> "ObjectId", v |-> CHOOSE oid \in OidSpace : toHexString(oid) = id]
  ELSE Thrown

-----------------------------------------------------------------------------
(* Decimal digits *)

Digits == <<"0", "1", "2", "3", "4", "5", "6", "7", "8", "9">>

IsDigit(c) == \E d \in 1..10 : Digits[d] = c

-----------------------------------------------------------------------------
(* GET /api/food/inventory *)

Concat(s, u) == s \o u

(* `${item.name}-${item.brands}` *)
Key(item) == Concat(Concat(item.name.v, <<"-">>), item.brands.v)

(* { ...item, count: 1 } *)
WithCount(item, n) ==
  [f \in (DOMAIN item) \cup {"count"} |-> IF f = "count" THEN n ELSE item[f]]

WithoutCount(entry) == [f \in (DOMAIN entry) \ {"count"} |-> entry[f]]

(* productCounts is an object: a sequence of <<key, value>> properties in    *)
(* the order of their creation.                                              *)
HasKey(acc, key) == \E i \in 1..Len(acc) : acc[i][1] = key

PropIndex(acc, key) == CHOOSE i \in 1..Len(acc) : acc[i][1] = key

(* A reduce step that overwrites the entry with the current item. *)
ReduceStepLast(acc, item) ==
  LET key == Key(item)
  IN IF HasKey(acc, key)
     THEN LET i == PropIndex(acc, key)
          IN [acc EXCEPT ![i] = <<key, WithCount(item, acc[i][2].count + 1)>>]
     ELSE Append(acc, <<key, WithCount(item, 1)>>)

(* A reduce step that deletes the entry of a known key and creates it anew. *)
ReduceStepReinsert(acc, item) ==
  LET key == Key(item)
  IN IF HasKey(acc, key)
     THEN LET i == PropIndex(acc, key)
          IN Append(RemoveAt(acc, i), <<key, [acc[i][2] EXCEPT !.count = @ + 1]>>)
     ELSE Append(acc, <<key, WithCount(item, 1)>>)

(* One step of inventory.reduce((acc, item) => ...): a known key only has its  *)
(* count incremented, a new key stores { ...item, count: 1 }.                  *)
ReduceStep(acc, item) ==
  LET key == Key(item)
  IN IF HasKey(acc, key)
     THEN LET i == PropIndex(acc, key)
          IN [acc EXCEPT ![i] = <<key, [acc[i][2] EXCEPT !.count = @ + 1]>>]
     ELSE Append(acc, <<key, WithCount(item, 1)>>)

RECURSIVE Reduce(_, _)
Reduce(acc, inventory) ==
  IF inventory = <<>> THEN acc
  ELSE Reduce(ReduceStep(acc, Head(inventory)), Tail(inventory))

(* 2^32 - 2, the largest array index, in decimal. *)
MaxArrayIndex == <<"4", "2", "9", "4", "9", "6", "7", "2", "9", "4">>

DigitPos(c) == CHOOSE d \in 1..10 : Digits[d] = c

(* s < u for digit strings of the same length *)
RECURSIVE LexLess(_, _)
LexLess(s, u) ==
  IF s = <<>> THEN FALSE
  ELSE IF Head(s) # Head(u) THEN DigitPos(Head(s)) < DigitPos(Head(u))
  ELSE LexLess(Tail(s), Tail(u))

(* A property key that is an array index: the canonical decimal string of an *)
(* integer in 0 .. 2^32 - 2.                                                 *)
IsArrayIndex(key) ==
  /\ key # <<>>
  /\ \A i \in 1..Len(key) : IsDigit(key[i])
  /\ Len(key) = 1 \/ key[1] # "0"
  /\ \/ Len(key) < Len(MaxArrayIndex)
     \/ Len(key) = Len(MaxArrayIndex) /\ ~LexLess(MaxArrayIndex, key)

(* Numeric order of two array-index keys *)
IndexLess(k1, k2) == Len(k1) < Len(k2) \/ (Len(k1) = Len(k2) /\ LexLess(k1, k2))

(* Own-property enumeration order: array-index keys in ascending numeric     *)
(* order first, then the other string keys in the order of their creation.   *)
EnumeratedBefore(acc, i, j) ==
  IF IsArrayIndex(acc[i][1]) /\ IsArrayIndex(acc[j][1]) THEN IndexLess(acc[i][1], acc[j][1])
  ELSE IF IsArrayIndex(acc[i][1]) THEN TRUE
  ELSE IF IsArrayIndex(acc[j][1]) THEN FALSE
  ELSE i < j

EnumerationRank(acc, i) ==
  1 + Cardinality({j \in (1..Len(acc)) \ {i} : EnumeratedBefore(acc, j, i)})

(* Object.values(productCounts) *)
ObjectValues(acc) ==
  [r \in 1..Len(acc) |-> acc[CHOOSE i \in 1..Len(acc) : EnumerationRank(acc, i) = r][2]]

aggregatedInventory(inventory) == ObjectValues(Reduce(<<>>, inventory))

(* collection.find().toArray(): the documents in some scan order *)
ScanOrders(st) ==
  {[i \in 1..Len(st) |-> st[p[i]]] :
     p \in {q \in [1..Len(st) -> 1..Len(st)] : \A i, j \in 1..Len(st) : q[i] = q[j] => i = j}}

(* inventory is what `await collection.find().toArray()` gave. *)
InventoryHandler(st, nid, inventory) ==
  Outcome(st, nid, AwaitingResult(Json(200, aggregatedInventory(inventory))))

-----------------------------------------------------------------------------
(* DELETE /api/food/delete/:id *)

(* collection.findOneAndDelete({_id}): the collection it leaves and what it  *)
(* resolves to. With includeResultMetadata (drivers up to 5.x) that is       *)
(* {value: the removed document or null}, without (driver 6.x) the removed   *)
(* document or null itself.                                                  *)
FindOneAndDelete(st, oid, includeResultMetadata) ==
  LET found == FindOne(st, oid)
  IN [store |-> IF HasId(st, oid) THEN RemoveAt(st, IndexOf(st, oid)) ELSE st,
      result |-> IF includeResultMetadata THEN [value |-> found] ELSE found]

(* The continuation of `await collection.findOneAndDelete(...)`. result.value *)
(* of a null result is a TypeError, which the catch answers.                 *)
DeleteByIdResult(result) ==
  IF IsThrown(Property(result, "value"))
  THEN Json(500, [error |-> "Failed to delete product"])
  ELSE IF ~Truthy(Property(result, "value"))
  THEN Json(404, [error |-> "Product not found"])
  ELSE Json(200, [message |-> "Product deleted successfully"])

DeleteByIdHandler(lin, st, nid, id, includeResultMetadata) ==
  IF lin = "expiry" /\ ~isValid(id)
  THEN Outcome(st, nid, Json(400, [error |-> "Invalid product ID"]))
  ELSE LET oid == ObjectId(id)
       IN IF IsThrown(oid)
          THEN Outcome(st, nid, Json(500, [error |-> "Failed to delete product"]))
          ELSE Outcome(FindOneAndDelete(st, oid.v, includeResultMetadata).store, nid,
                 AwaitingResult(DeleteByIdResult(
                   FindOneAndDelete(st, oid.v, includeResultMetadata).result)))

-----------------------------------------------------------------------------
(* DELETE /api/food/delete/all *)

(* collection.deleteMany({}) *)
DeleteMany(st) == [store |-> <<>>, deletedCount |-> Len(st)]

DeleteAllHandler(st, nid) ==
  LET result == DeleteMany(st)
  IN IF result.deletedCount = 0
     THEN Outcome(result.store, nid,
                  AwaitingResult(Json(404, [error |-> "No products found to delete"])))
     ELSE Outcome(result.store, nid,
                  AwaitingResult(Json(200, [message |-> "All products deleted successfully"])))

-----------------------------------------------------------------------------
(* GET /api/food/:id *)

GetByIdHandler(st, nid, id) ==
  LET oid == ObjectId(id)
  IN IF IsThrown(oid)
     THEN Outcome(st, nid, Json(500, [error |-> "Failed to fetch product"]))
     ELSE LET item == FindOne(st, oid.v)
          IN IF ~Truthy(item)
             THEN Outcome(st, nid, AwaitingResult(Json(404, [error |-> "Product not found"])))
             ELSE Outcome(st, nid, AwaitingResult(Json(200, item)))

-----------------------------------------------------------------------------
(* PUT /api/food/update/:id   (src/server.js only) *)

DigitValue(c) == (CHOOSE d \in 1..10 : Digits[d] = c) - 1

RECURSIVE DecimalValue(_, _)
DecimalValue(s, sofar) ==
  IF s = <<>> THEN sofar ELSE DecimalValue(Tail(s), 10 * sofar + DigitValue(Head(s)))

HexDigits == <<"0", "1", "2", "3", "4", "5", "6", "7", "8", "9", "a", "b", "c", "d", "e", "f">>

HexDigitsUpper == <<"0", "1", "2", "3", "4", "5", "6", "7", "8", "9", "A", "B", "C", "D", "E", "F">>

(* The value of a digit in a radix up to 16; 16 for any other character. *)
RadixValue(c) ==
  IF \E d \in 1..16 : HexDigits[d] = c THEN (CHOOSE d \in 1..16 : HexDigits[d] = c) - 1
  ELSE IF \E d \in 1..16 : HexDigitsUpper[d] = c
  THEN (CHOOSE d \in 1..16 : HexDigitsUpper[d] = c) - 1
  ELSE 16

StripLeadingZeros(s) == StripStart(s, {"0"})

(* The number of trailing zeros of s *)
TrailingZeros(s) == Len(s) - Len(StripEnd(s, {"0"}))

RECURSIVE Pow10(_)
Pow10(e) == IF e = 0 THEN 1 ELSE 10 * Pow10(e - 1)

(* 0.s < 0.u for digit strings of any lengths *)
FractionLess(s, u) ==
  LET differ == {i \in 1..Len(s) : i <= Len(u) /\ s[i] # u[i]}
  IN IF differ # {}
     THEN DigitPos(s[Least(differ)]) < DigitPos(u[Least(differ)])
     ELSE \E i \in (Len(s) + 1)..Len(u) : u[i] # "0"

(* The digits of 2^1024 - 2^970 (about 1.8e308), half way between the       *)
(* largest finite Number and 2^1024: a magnitude from there on is Infinity.  *)
OverflowDigits ==
  <<"1", "7", "9", "7", "6", "9", "3", "1", "3", "4", "8", "6", "2", "3",
    "1", "5", "8", "0", "7", "9", "3", "7", "2", "8", "9", "7", "1", "4",
    "0", "5", "3", "0", "3", "4", "1", "5", "0", "7", "9", "9", "3", "4",
    "1", "3", "2", "7", "1", "0", "0", "3", "7", "8", "2", "6", "9", "3",
    "6", "1", "7", "3", "7", "7", "8", "9", "8", "0", "4", "4", "4", "9",
    "6", "8", "2", "9", "2", "7", "6", "4", "7", "5", "0", "9", "4", "6",
    "6", "4", "9", "0", "1", "7", "9", "7", "7", "5", "8", "7", "2", "0",
    "7", "0", "9", "6", "3", "3", "0", "2", "8", "6", "4", "1", "6", "6",
    "9", "2", "8", "8", "7", "9", "1", "0", "9", "4", "6", "5", "5", "5",
    "5", "4", "7", "8", "5", "1", "9", "4", "0", "4", "0", "2", "6", "3",
    "0", "6", "5", "7", "4", "8", "8", "6", "7", "1", "5", "0", "5", "8",
    "2", "0", "6", "8", "1", "9", "0", "8", "9", "0", "2", "0", "0", "0",
    "7", "0", "8", "3", "8", "3", "6", "7", "6", "2", "7", "3", "8", "5",
    "4", "8", "4", "5", "8", "1", "7", "7", "1", "1", "5", "3", "1", "7",
    "6", "4", "4", "7", "5", "7", "3", "0", "2", "7", "0", "0", "6", "9",
    "8", "5", "5", "5", "7", "1", "3", "6", "6", "9", "5", "9", "6", "2",
    "2", "8", "4", "2", "9", "1", "4", "8", "1", "9", "8", "6", "0", "8",
    "3", "4", "9", "3", "6", "4", "7", "5", "2", "9", "2", "7", "1", "9",
    "0", "7", "4", "1", "6", "8", "4", "4", "4", "3", "6", "5", "5", "1",
    "0", "7", "0", "4", "3", "4", "2", "7", "1", "1", "5", "5", "9", "6",
    "9", "9", "5", "0", "8", "0", "9", "3", "0", "4", "2", "8", "8", "0",
    "1", "7", "7", "9", "0", "4", "1", "7", "4", "4", "9", "7", "7", "9",
    "2">>

(* The digits of 2^-1075 = 5^1075 * 10^-1075 (about 2.5e-324), half the      *)
(* smallest Number above 0: a magnitude up to there is 0.                    *)
UnderflowDigits ==
  <<"2", "4", "7", "0", "3", "2", "8", "2", "2", "9", "2", "0", "6", "2",
    "3", "2", "7", "2", "0", "8", "8", "2", "8", "4", "3", "9", "6", "4",
    "3", "4", "1", "1", "0", "6", "8", "6", "1", "8", "2", "5", "2", "9",
    "9", "0", "1", "3", "0", "7", "1", "6", "2", "3", "8", "2", "2", "1",
    "2", "7", "9", "2", "8", "4", "1", "2", "5", "0", "3", "3", "7", "7",
    "5", "3", "6", "3", "5", "1", "0", "4", "3", "7", "5", "9", "3", "2",
    "6", "4", "9", "9", "1", "8", "1", "8", "0", "8", "1", "7", "9", "9",
    "6", "1", "8", "9", "8", "9", "8", "2", "8", "2", "3", "4", "7", "7",
    "2", "2", "8", "5", "8", "8", "6", "5", "4", "6", "3", "3", "2", "8",
    "3", "5", "5", "1", "7", "7", "9", "6", "9", "8", "9", "8", "1", "9",
    "9", "3", "8", "7", "3", "9", "8", "0", "0", "5", "3", "9", "0", "9",
    "3", "9", "0", "6", "3", "1", "5", "0", "3", "5", "6", "5", "9", "5",
    "1", "5", "5", "7", "0", "2", "2", "6", "3", "9", "2", "2", "9", "0",
    "8", "5", "8", "3", "9", "2", "4", "4", "9", "1", "0", "5", "1", "8",
    "4", "4", "3", "5", "9", "3", "1", "8", "0", "2", "8", "4", "9", "9",
    "3", "6", "5", "3", "6", "1", "5", "2", "5", "0", "0", "3", "1", "9",
    "3", "7", "0", "4", "5", "7", "6", "7", "8", "2", "4", "9", "2", "1",
    "9", "3", "6", "5", "6", "2", "3", "6", "6", "9", "8", "6", "3", "6",
    "5", "8", "4", "8", "0", "7", "5", "7", "0", "0", "1", "5", "8", "5",
    "7", "6", "9", "2", "6", "9", "9", "0", "3", "7", "0", "6", "3", "1",
    "1", "9", "2", "8", "2", "7", "9", "5", "5", "8", "5", "5", "1", "3",
    "3", "2", "9", "2", "7", "8", "3", "4", "3", "3", "8", "4", "0", "9",
    "3", "5", "1", "9", "7", "8", "0", "1", "5", "5", "3", "1", "2", "4",
    "6", "5", "9", "7", "2", "6", "3", "5", "7", "9", "5", "7", "4", "6",
    "2", "2", "7", "6", "6", "4", "6", "5", "2", "7", "2", "8", "2", "7",
    "2", "2", "0", "0", "5", "6", "3", "7", "4", "0", "0", "6", "4", "8",
    "5", "4", "9", "9", "9", "7", "7", "0", "9", "6", "5", "9", "9", "4",
    "7", "0", "4", "5", "4", "0", "2", "0", "8", "2", "8", "1", "6", "6",
    "2", "2", "6", "2", "3", "7", "8", "5", "7", "3", "9", "3", "4", "5",
    "0", "7", "3", "6", "3", "3", "9", "0", "0", "7", "9", "6", "7", "7",
    "6", "1", "9", "3", "0", "5", "7", "7", "5", "0", "6", "7", "4", "0",
    "1", "7", "6", "3", "2", "4", "6", "7", "3", "6", "0", "0", "9", "6",
    "8", "9", "5", "1", "3", "4", "0", "5", "3", "5", "5", "3", "7", "4",
    "5", "8", "5", "1", "6", "6", "6", "1", "1", "3", "4", "2", "2", "3",
    "7", "6", "6", "6", "7", "8", "6", "0", "4", "1", "6", "2", "1", "5",
    "9", "6", "8", "0", "4", "6", "1", "9", "1", "4", "4", "6", "7", "2",
    "9", "1", "8", "4", "0", "3", "0", "0", "5", "3", "0", "0", "5", "7",
    "5", "3", "0", "8", "4", "9", "0", "4", "8", "7", "6", "5", "3", "9",
    "1", "7", "1", "1", "3", "8", "6", "5", "9", "1", "6", "4", "6", "2",
    "3", "9", "5", "2", "4", "9", "1", "2", "6", "2", "3", "6", "5", "3",
    "8", "8", "1", "8", "7", "9", "6", "3", "6", "2", "3", "9", "3", "7",
    "3", "2", "8", "0", "4", "2", "3", "8", "9", "1", "0", "1", "8", "6",
    "7", "2", "3", "4", "8", "4", "9", "7", "6", "6", "8", "2", "3", "5",
    "0", "8", "9", "8", "6", "3", "3", "8", "8", "5", "8", "7", "9", "2",
    "5", "6", "2", "8", "3", "0", "2", "7", "5", "5", "9", "9", "5", "6",
    "5", "7", "5", "2", "4", "4", "5", "5", "5", "0", "7", "2", "5", "5",
    "1", "8", "9", "3", "1", "3", "6", "9", "0", "8", "3", "6", "2", "5",
    "4", "7", "7", "9", "1", "8", "6", "9", "4", "8", "6", "6", "7", "9",
    "9", "4", "9", "6", "8", "3", "2", "4", "0", "4", "9", "7", "0", "5",
    "8", "2", "1", "0", "2", "8", "5", "1", "3", "1", "8", "5", "4", "5",
    "1", "3", "9", "6", "2", "1", "3", "8", "3", "7", "7", "2", "2", "8",
    "2", "6", "1", "4", "5", "4", "3", "7", "6", "9", "3", "4", "1", "2",
    "5", "3", "2", "0", "9", "8", "5", "9", "1", "3", "2", "7", "6", "6",
    "7", "2", "3", "6", "3", "2", "8", "1", "2", "5">>

(* The Number value of sign * digits * 10^exp: Infinity, 0, or the finite     *)
(* Number nearest to it.                                                     *)
RoundToDouble(sign, digits, exp) ==
  LET lead == StripLeadingZeros(digits)
      mant == SubSeq(lead, 1, Len(lead) - TrailingZeros(lead))
      e == exp + TrailingZeros(lead)
      top == Len(mant) + e - 1
  IN IF mant = <<>> THEN Num(0)
     ELSE IF top > 308 \/ (top = 308 /\ ~FractionLess(mant, OverflowDigits))
     THEN Infinity(sign)
     ELSE IF top < 0 - 324 \/ (top = 0 - 324 /\ ~FractionLess(UnderflowDigits, mant))
     THEN Num(0)
     ELSE IF e >= 0 /\ Len(mant) + e <= 9
     THEN Num(sign * DecimalValue(mant, 0) * Pow10(e))
     ELSE Real(sign, mant, e)

(* The first position of s holding a character of cs, or 0. *)
FirstIndex(s, cs) ==
  IF \E i \in 1..Len(s) : s[i] \in cs
  THEN CHOOSE i \in 1..Len(s) : s[i] \in cs /\ \A j \in 1..(i - 1) : s[j] \notin cs
  ELSE 0

AllDigits(s) == \A i \in 1..Len(s) : IsDigit(s[i])

(* The value of the digits of an ExponentPart; past six digits the result is *)
(* Infinity or 0 whatever the digits are.                                    *)
ExponentValue(ds) ==
  LET d == StripLeadingZeros(ds)
  IN IF Len(d) > 6 THEN 1000000 ELSE DecimalValue(d, 0)

(* StrUnsignedDecimalLiteral other than Infinity: digits, an optional        *)
(* fraction, an optional exponent.                                           *)
DecimalLiteral(sign, s) ==
  LET ePos == FirstIndex(s, {"e", "E"})
      body == IF ePos = 0 THEN s ELSE SubSeq(s, 1, ePos - 1)
      expo == IF ePos = 0 THEN <<>> ELSE SubSeq(s, ePos + 1, Len(s))
      eSigned == expo # <<>> /\ Head(expo) \in {"+", "-"}
      eDigits == IF eSigned THEN Tail(expo) ELSE expo
      dot == FirstIndex(body, {"."})
      int == IF dot = 0 THEN body ELSE SubSeq(body, 1, dot - 1)
      frac == IF dot = 0 THEN <<>> ELSE SubSeq(body, dot + 1, Len(body))
      wellFormed == /\ AllDigits(int)
                    /\ AllDigits(frac)
                    /\ Len(int) + Len(frac) > 0
                    /\ ePos # 0 => (eDigits # <<>> /\ AllDigits(eDigits))
      ev == IF ePos = 0 THEN 0
            ELSE IF Head(expo) = "-" THEN 0 - ExponentValue(eDigits)
            ELSE ExponentValue(eDigits)
  IN IF wellFormed THEN RoundToDouble(sign, int \o frac, ev - Len(frac)) ELSE NaN

(* The radix of a 0x, 0o or 0b prefix; 0 for any other character. *)
RadixOf(c) ==
  CASE c \in {"x", "X"} -> 16
    [] c \in {"o", "O"} -> 8
    [] c \in {"b", "B"} -> 2
    [] OTHER -> 0

(* NonDecimalIntegerLiteral: it takes no sign. *)
IsNonDecimalLiteral(w) ==
  /\ Len(w) >= 3
  /\ w[1] = "0"
  /\ RadixOf(w[2]) # 0
  /\ \A i \in 3..Len(w) : RadixValue(w[i]) < RadixOf(w[2])

(* The number of bits of a digit: 4, 3 or 1 for the radix 16, 8 or 2. *)
BitsPerDigit(radix) == IF radix = 16 THEN 4 ELSE IF radix = 8 THEN 3 ELSE 1

(* The number of bits of v without its leading zero bits, for v in 1..15 *)
BitLength(v) == IF v >= 8 THEN 4 ELSE IF v >= 4 THEN 3 ELSE IF v >= 2 THEN 2 ELSE 1

(* The j-th bit of the digits d, each of b bits, counted from the first. *)
Bit(d, b, j) ==
  (RadixValue(d[((j - 1) \div b) + 1]) \div (2 ^ (b - 1 - ((j - 1) % b)))) % 2

(* The integer that at most 30 bits of digits denote *)
RECURSIVE IntValue(_, _, _)
IntValue(d, radix, sofar) ==
  IF d = <<>> THEN sofar ELSE IntValue(Tail(d), radix, radix * sofar + RadixValue(Head(d)))

(* The decimal digits of a natural number *)
RECURSIVE IntDigits(_)
IntDigits(n) ==
  IF n < 10 THEN <<Digits[n + 1]>> ELSE IntDigits(n \div 10) \o <<Digits[(n % 10) + 1]>>

(* The Number value of 0x, 0o or 0b and digits. With 1024 bits the integer *)
(* is 2^1024 - 2^970 or more, and so Infinity, when its 54 leading bits are  *)
(* ones.                                                                     *)
NonDecimalLiteral(w) ==
  LET radix == RadixOf(w[2])
      b == BitsPerDigit(radix)
      d == StripLeadingZeros(SubSeq(w, 3, Len(w)))
      lead == BitLength(RadixValue(d[1]))
      bits == (Len(d) - 1) * b + lead
  IN IF d = <<>> THEN Num(0)
     ELSE IF bits <= 30 THEN RoundToDouble(1, IntDigits(IntValue(d, radix, 0)), 0)
     ELSE IF bits > 1024
             \/ (bits = 1024 /\ \A j \in (b - lead + 1)..(b - lead + 54) : Bit(d, b, j) = 1)
     THEN Infinity(1)
     ELSE NonDecimal(radix, d)

(* StringToNumber: the string without its surrounding white space is empty   *)
(* (0), a StrNumericLiteral, or not a number.                                *)
StringToNumber(s) ==
  LET w == trimEnd(trimStart(s))
      signed == w # <<>> /\ Head(w) \in {"+", "-"}
      sign == IF w # <<>> /\ Head(w) = "-" THEN 0 - 1 ELSE 1
      rest == IF signed THEN Tail(w) ELSE w
  IN IF w = <<>> THEN Num(0)
     ELSE IF IsNonDecimalLiteral(w) THEN NonDecimalLiteral(w)
     ELSE IF rest = <<"I", "n", "f", "i", "n", "i", "t", "y">> THEN Infinity(sign)
     ELSE DecimalLiteral(sign, rest)

(* ToPrimitive throws a TypeError: for an object of a JSON body or of a      *)
(* parsed query string that has an own property toString, which is no       *)
(* function (the inherited valueOf returns the object itself, an own valueOf *)
(* is no function either); for an array, whose string form joins the string  *)
(* forms of its elements, when the conversion of an element throws.          *)
RECURSIVE ToPrimitiveThrows(_)
ToPrimitiveThrows(x) ==
  IF IsObject(x) THEN "toString" \in DOMAIN x
  ELSE IsArray(x) /\ \E i \in 1..Len(x.v) : ToPrimitiveThrows(x.v[i])

(* ToNumber of the string an array element contributes to the array's       *)
(* string form: a number is read back as itself, null and undefined          *)
(* contribute the empty string, true and false and an object a string that   *)
(* is no numeric literal. The string form of an array of two or more         *)
(* elements holds a comma and is no numeric literal.                         *)
RECURSIVE ElementToNumber(_)
ElementToNumber(x) ==
  IF ToPrimitiveThrows(x) THEN Thrown
  ELSE IF IsObject(x) THEN NaN
  ELSE CASE x.t = "number" -> x
         [] x.t = "string" -> StringToNumber(x.v)
         [] x.t = "null" -> Num(0)
         [] x.t = "undefined" -> Num(0)
         [] x.t = "array" -> IF Len(x.v) = 0 THEN Num(0)
                             ELSE IF Len(x.v) = 1 THEN ElementToNumber(x.v[1])
                             ELSE NaN
         [] OTHER -> NaN

(* ToNumber: a Number, NaN, or the TypeError of ToPrimitive *)
ToNumber(x) ==
  IF ToPrimitiveThrows(x) THEN Thrown
  ELSE IF IsObject(x) THEN NaN
  ELSE CASE x.t = "number" -> x
         [] x.t = "string" -> StringToNumber(x.v)
         [] x.t = "boolean" -> Num(IF x.v THEN 1 ELSE 0)
         [] x.t = "null" -> Num(0)
         [] x.t = "array" -> ElementToNumber(x)
         [] OTHER -> NaN

(* The negative-quantity guard left out. *)
NeverNegative(x) == Bool(FALSE)

(* quantity < 0 : true or false (false when quantity converts to NaN), or the *)
(* TypeError of the conversion                                               *)
LessThanZero(x) ==
  IF IsThrown(ToNumber(x)) THEN Thrown
  ELSE Bool(IsNumber(ToNumber(x)) /\ Sign(ToNumber(x)) < 0)

(* quantity === 0 : no conversion *)
StrictEqualsZero(x) == IsNumber(x) /\ Sign(x) = 0

(* collection.deleteOne({_id}) *)
DeleteOne(st, oid) ==
  IF HasId(st, oid)
  THEN [store |-> RemoveAt(st, IndexOf(st, oid)), deletedCount |-> 1]
  ELSE [store |-> st, deletedCount |-> 0]

(* An update that replaces the document by {_id, [field]: value}. *)
UpdateOneReplacing(st, oid, field, value) ==
  IF HasId(st, oid)
  THEN LET i == IndexOf(st, oid)
           after == [f \in {"_id", field} |-> IF f = field THEN Serialize(value) ELSE oid]
       IN [store |-> [st EXCEPT ![i] = after], matchedCount |-> 1,
           modifiedCount |-> IF after = st[i] THEN 0 ELSE 1]
  ELSE [store |-> st, matchedCount |-> 0, modifiedCount |-> 0]

(* collection.updateOne({_id}, {$set: {[field]: value}}) *)
UpdateOne(st, oid, field, value) ==
  IF HasId(st, oid)
  THEN LET i == IndexOf(st, oid)
           after == [f \in (DOMAIN st[i]) \cup {field} |->
                       IF f = field THEN Serialize(value) ELSE st[i][f]]
       IN [store |-> [st EXCEPT ![i] = after], matchedCount |-> 1,
           modifiedCount |-> IF after = st[i] THEN 0 ELSE 1]
  ELSE [store |-> st, matchedCount |-> 0, modifiedCount |-> 0]

(* quantity < 0 stands before the try: its TypeError is caught by nothing. *)
PutUpdateHandler(st, nid, id, quantity, uncaught) ==
  IF IsThrown(LessThanZero(quantity))
  THEN Outcome(st, nid, uncaught)
  ELSE IF LessThanZero(quantity).v
  THEN Outcome(st, nid, Json(400, [error |-> "Quantity cannot be negative"]))
  ELSE LET oid == ObjectId(id)
       IN IF IsThrown(oid)
          THEN Outcome(st, nid, Json(500, [error |-> "Failed to update product quantity"]))
          ELSE IF StrictEqualsZero(quantity)
          THEN LET result == DeleteOne(st, oid.v)
               IN IF result.deletedCount = 0
                  THEN Outcome(result.store, nid,
                         AwaitingResult(Json(404, [error |-> "Product not found to delete"])))
                  ELSE Outcome(result.store, nid,
                         AwaitingResult(Json(200, [message |-> "Product deleted due to quantity being 0"])))
          ELSE LET result == UpdateOne(st, oid.v, "quantity", quantity)
               IN IF result.matchedCount = 0
                  THEN Outcome(result.store, nid,
                         AwaitingResult(Json(404, [error |-> "Product not found"])))
                  ELSE Outcome(result.store, nid,
                         AwaitingResult(Json(200, [message |-> "Product quantity updated"])))

-----------------------------------------------------------------------------
(* PATCH /api/food/update/:id   (src/unnamed/part_000 only) *)

PatchUpdateHandler(st, nid, id, expiryDate) ==
  IF ~Truthy(expiryDate)
  THEN Outcome(st, nid, Json(400, [error |-> "Expiry date is required"]))
  ELSE LET oid == ObjectId(id)
       IN IF IsThrown(oid)
          THEN Outcome(st, nid, Json(500, [error |-> "Failed to update expiry date"]))
          ELSE LET updatedProduct == UpdateOne(st, oid.v, "expiryDate", expiryDate)
               IN IF updatedProduct.modifiedCount = 0
                  THEN Outcome(updatedProduct.store, nid,
                         AwaitingResult(Json(404, [error |-> "Product not found or expiry date is the same"])))
                  ELSE Outcome(updatedProduct.store, nid,
                         AwaitingResult(Json(200, [message |-> "Expiry date updated successfully"])))

-----------------------------------------------------------------------------
(* GET /api/food/search *)

(* x.length: arrays and strings have it, null and undefined throw. *)
Length(x) ==
  IF IsArray(x) \/ IsString(x) THEN Num(Len(x.v)) ELSE Property(x, "length")

(* One entry of filteredProducts; the product is neither null nor undefined. *)
filteredProduct(product) ==
  [name |-> Or(Property(product, "product_name"),
                 Str(<<"N", "o", " ", "n", "a", "m", "e", " ", "a", "v", "a", "i", "l", "a", "b", "l", "e">>)),
   brands |-> Or(Property(product, "brands"),
                 Str(<<"N", "o", " ", "b", "r", "a", "n", "d", " ", "i", "n", "f", "o", "r", "m", "a", "t", "i", "o", "n">>)),
   quantity |-> Or(Property(product, "quantity"),
                 Str(<<"U", "n", "k", "n", "o", "w", "n", " ", "q", "u", "a", "n", "t", "i", "t", "y">>)),
   categories |-> Or(Property(product, "categories"),
                 Str(<<"N", "o", " ", "c", "a", "t", "e", "g", "o", "r", "i", "e", "s", " ", "a", "v", "a", "i", "l", "a", "b", "l", "e">>)),
   imageUrl |-> Or(Property(product, "image_url"),
                 Str(<<"N", "o", " ", "i", "m", "a", "g", "e", " ", "a", "v", "a", "i", "l", "a", "b", "l", "e">>)),
   url |-> Or(Property(product, "url"),
                 Str(<<"N", "o", " ", "U", "R", "L", " ", "a", "v", "a", "i", "l", "a", "b", "l", "e">>)),
   ingredients |-> Or(Property(product, "ingredients_text"),
                 Str(<<"N", "o", " ", "i", "n", "g", "r", "e", "d", "i", "e", "n", "t", "s", " ", "i", "n", "f", "o", "r", "m", "a", "t", "i", "o", "n">>))]

(* The continuation of `await axios.get(...)`. upstream is Thrown when the   *)
(* call failed, else response.data. A TypeError (data that is null, products *)
(* that has no map method, a product that is null) is caught like a failed   *)
(* call.                                                                     *)
SearchResult(upstream) ==
  LET products == Property(upstream, "products")
      failed == Json(500, [error |-> "Error fetching data from Open Food Facts API"])
  IN IF IsThrown(upstream) \/ IsThrown(products)
     THEN failed
     ELSE IF ~Truthy(products) \/ StrictEqualsZero(Length(products))
     THEN Json(404, [message |-> "No products found"])
     ELSE IF IsArray(products)
             /\ \A i \in 1..Len(products.v) :
                  ~IsNull(products.v[i]) /\ ~IsUndefined(products.v[i])
     THEN Json(200, [i \in 1..Len(products.v) |-> filteredProduct(products.v[i])])
     ELSE failed

(* The handler reads and writes no record. The template literal of the URL  *)
(* converts search to a string inside the try, before axios.get is called.  *)
SearchHandler(st, nid, search, upstream) ==
  IF ~Truthy(search)
  THEN Outcome(st, nid, Json(400, [error |-> "Please provide a food search term"]))
  ELSE IF ToPrimitiveThrows(search)
  THEN Outcome(st, nid, Json(500, [error |-> "Error fetching data from Open Food Facts API"]))
  ELSE Outcome(st, nid, AwaitingResult(SearchResult(upstream)))

-----------------------------------------------------------------------------
(* Routing: Express tries the routes in the order of their registration and  *)
(* runs the first whose method and path match; no handler calls next().      *)

Route(method, pattern, handler) == [method |-> method, pattern |-> pattern, handler |-> handler]

(* Paths are given relative to /api/food. *)
Routes(lin) ==
  IF lin = "numeric"
  THEN << Route("GET", <<"search">>, "search"),
          Route("POST", <<"add">>, "add"),
          Route("GET", <<"inventory">>, "inventory"),
          Route("DELETE", <<"delete", ":id">>, "deleteById"),
          Route("PUT", <<"update", ":id">>, "putUpdate"),
          Route("GET", <<":id">>, "getById") >>
  ELSE << Route("GET", <<"search">>, "search"),
          Route("POST", <<"add">>, "add"),
          Route("GET", <<"inventory">>, "inventory"),
          Route("DELETE", <<"delete", ":id">>, "deleteById"),
          Route("GET", <<":id">>, "getById"),
          Route("PATCH", <<"update", ":id">>, "patchUpdate"),
          Route("DELETE", <<"delete", "all">>, "deleteAll") >>


Matches(route, method, path) ==
  /\ route.method = method
  /\ Len(route.pattern) = Len(path)
  /\ \A i \in 1..Len(path) : route.pattern[i] = ":id" \/ route.pattern[i] = path[i]

(* The handler of the first matching route, or "none". *)
Dispatch(lin, method, path) ==
  LET rs == Routes(lin)
      hits == {i \in 1..Len(rs) : Matches(rs[i], method, path)}
  IN IF hits = {} THEN "none"
     ELSE rs[CHOOSE i \in hits : \A j \in hits : i <= j].handler

(* req.params.id *)
ParamId(path) == path[Len(path)]

(* Express's final handler when no route matches. *)
NotFoundHandler(st, nid) == Outcome(st, nid, Json(404, [error |-> "Cannot route"]))

(* The outcome of one request on the server `lin`. *)
Handle(lin, st, nid, r, inventory, uncaught, upstream, includeResultMetadata) ==
  LET h == Dispatch(lin, r.method, r.path)
  IN CASE h = "search" -> SearchHandler(st, nid, Field(Field(r, "query"), "search"), upstream)
       [] h = "add" -> AddHandler(lin, st, nid, r.body, uncaught)
       [] h = "inventory" -> InventoryHandler(st, nid, inventory)
       [] h = "deleteById" -> DeleteByIdHandler(lin, st, nid, ParamId(r.path), includeResultMetadata)
       [] h = "deleteAll" -> DeleteAllHandler(st, nid)
       [] h = "getById" -> GetByIdHandler(st, nid, ParamId(r.path))
       [] h = "putUpdate" -> PutUpdateHandler(st, nid, ParamId(r.path), Field(r.body, "quantity"), uncaught)
       [] h = "patchUpdate" -> PatchUpdateHandler(st, nid, ParamId(r.path), Field(r.body, "expiryDate"))
       [] OTHER -> NotFoundHandler(st, nid)

-----------------------------------------------------------------------------
(* Inputs *)

(* The optional fields of an add body: all absent, or some sent. *)
NoOptional ==
  [ingredients |-> Undefined, categories |-> Undefined, imageUrl |-> Undefined,
   url |-> Undefined, expiryDate |-> Undefined]

SomeOptional ==
  [ingredients |-> Str(<<"i">>), categories |-> Undefined, imageUrl |-> Undefined,
   url |-> Str(<<"u">>), expiryDate |-> Str(<<"d", "1">>)]

(* The body of an add request *)
AddBody(name, brands, quantity, optional) ==
  [name |-> name, ingredients |-> optional.ingredients, brands |-> brands,
   quantity |-> quantity, categories |-> optional.categories,
   imageUrl |-> optional.imageUrl, url |-> optional.url,
   expiryDate |-> optional.expiryDate]

(* Bodies that pass the validation. *)
ValidBodies ==
  {AddBody(Str(<<" ", "a", " ">>), Str(<<" ", "a", "\n">>), Str(<<"1", "\t">>), SomeOptional)}

(* Bodies with a required field absent or blank. *)
BlankBodies ==
  {AddBody(Undefined, Undefined, Str(<<" ">>), NoOptional),
   AddBody(Str(<<"\t">>), Str(<<"a", "-", "a">>), Str(<<"1", " ">>), NoOptional),
   AddBody(Str(<<"a">>), Undefined, Str(<<"1", " ">>), NoOptional)}

(* Bodies with a required field that is no string. *)
NonStringBodies ==
  {AddBody(Num(7), Str(<<"a">>), Str(<<"1">>), NoOptional),
   AddBody(Str(<<"a">>), [a |-> Num(1)], Str(<<"1">>), NoOptional),
   AddBody(Num(0), Str(<<"a">>), Str(<<"1">>), NoOptional)}

AddBodies == ValidBodies \cup BlankBodies \cup NonStringBodies

(* The ids requests name: that of the first record inserted, and a malformed *)
(* one.                                                                      *)
IdInputs == {toHexString(1), "xyz"}

(* The id and the quantity of an update. *)
PutInputs ==
  (IdInputs \X {Num(0 - 1), Num(0), Num(2)})
  \cup {<<toHexString(1), Str(<<"-", "1", "e", "1">>)>>,
        <<toHexString(1), Arr(<<Num(0 - 1)>>)>>,
        <<toHexString(1), [toString |-> Num(1)]>>}

NewExpiryInputs == {Undefined, Str(<<"d", "2">>)}
(* ?search[toString]=1 is parsed to an object by the extended query parser. *)
SearchInputs == {Undefined, Str(<<"a">>), [toString |-> Str(<<"1">>)]}

(* What the call to the Open Food Facts API may give. *)
UpstreamInputs ==
  {Thrown,
   Null,
   [products |-> Arr(<<>>)],
   [products |-> Arr(<<Num(5)>>)],
   [products |-> Arr(<<[product_name |-> Str(<<"a">>), brands |-> Str(<<>>)]>>)]}

NoBody == [none |-> TRUE]

Request(method, path, body) == [method |-> method, path |-> path, body |-> body]

(* No response is on display: req and res hold the latest exchange answered *)
(* until Deliver forgets it.                                                 *)
Idle == req = NoRequest

(* The handlers suspended at an await. At most NumClients of them are        *)
(* explored at the same time.                                                *)
Clients == 1..NumClients

ConcIdle == [pc |-> "idle"]

NoneInFlight == [c \in Clients |-> ConcIdle]

(* The add handler of request r, suspended at `await insertOne(...)`. *)
AfterInsert(r, insertedId) == [pc |-> "afterInsert", req |-> r, insertedId |-> insertedId]

(* The handler of request r, suspended at its last await: its continuation   *)
(* sends response. inventory is the array find().toArray() gave, if called.  *)
Answering(r, response, inventory) ==
  [pc |-> "answering", req |-> r, res |-> response, scanned |-> inventory]

(* The suspended handler of request r, given the await it stopped at. *)
Suspended(r, awaiting, inventory) ==
  IF awaiting.await = "findOne"
  THEN AfterInsert(r, awaiting.insertedId)
  ELSE Answering(r, awaiting.res, inventory)

FreeSlots == {c \in Clients : conc[c].pc = "idle"}

(* The effect of a handler run of outcome out for the request r: the store   *)
(* as the handler left it, and the response sent or the handler suspended in *)
(* the lowest free slot.                                                     *)
Effect(r, inventory, out) ==
  /\ store' = out.store
  /\ nextId' = out.nextId
  /\ IF IsAwaiting(out.res)
     THEN /\ FreeSlots # {}
          /\ conc' = [conc EXCEPT ![Least(FreeSlots)] = Suspended(r, out.res, inventory)]
          /\ UNCHANGED <<req, res, scanned>>
     ELSE /\ req' = r
          /\ res' = out.res
          /\ UNCHANGED <<conc, scanned>>

(* The request r arrives and its handler runs up to its first await, store   *)
(* call included, or to the response it sends before any await. Other        *)
(* handlers may be suspended meanwhile.                                      *)
Exchange(r, inventory, uncaught, upstream, includeResultMetadata) ==
  /\ Idle
  /\ Effect(r, inventory,
            Handle(lineage, store, nextId, r, inventory, uncaught, upstream, includeResultMetadata))
  /\ UNCHANGED lineage

AddFood(body, uncaught) ==
  /\ nextId <= MaxInserts
  /\ Exchange(Request("POST", <<"add">>, body), <<>>, uncaught, Thrown, TRUE)
  /\ UNCHANGED zeroed

(* A suspended add handler resumes after insertOne: the re-read. *)
AddFindOne(c) ==
  /\ Idle
  /\ conc[c].pc = "afterInsert"
  /\ conc' = [conc EXCEPT ![c] =
                Answering(conc[c].req, AddReread(store, conc[c].insertedId), <<>>)]
  /\ UNCHANGED <<lineage, store, nextId, req, res, scanned, zeroed>>

(* A handler suspended at its last await resumes and sends its response.     *)
(* scanned keeps the array that find().toArray() had returned to it.         *)
Respond(c) ==
  /\ Idle
  /\ conc[c].pc = "answering"
  /\ req' = conc[c].req
  /\ res' = conc[c].res
  /\ scanned' = conc[c].scanned
  /\ conc' = [conc EXCEPT ![c] = ConcIdle]
  /\ UNCHANGED <<lineage, store, nextId, zeroed>>

SearchFood(search, upstream) ==
  /\ Exchange([method |-> "GET", path |-> <<"search">>, body |-> NoBody,
               query |-> [search |-> search]],
              <<>>, NoResponse, upstream, TRUE)
  /\ UNCHANGED zeroed

GetInventory(inventory) ==
  /\ Exchange(Request("GET", <<"inventory">>, NoBody), inventory, NoResponse, Thrown, TRUE)
  /\ UNCHANGED zeroed

(* Which driver the server runs on is not fixed by the source. *)
DeleteFood(id, includeResultMetadata) ==
  /\ Exchange(Request("DELETE", <<"delete", id>>, NoBody), <<>>, NoResponse, Thrown,
              includeResultMetadata)
  /\ UNCHANGED zeroed

GetFood(id) ==
  /\ Exchange(Request("GET", <<id>>, NoBody), <<>>, NoResponse, Thrown, TRUE)
  /\ UNCHANGED zeroed

(* zeroed records the ids removed by a quantity-0 update (history only). *)
PutUpdate(id, quantity, uncaught) ==
  /\ Exchange(Request("PUT", <<"update", id>>, [quantity |-> quantity]), <<>>, uncaught, Thrown, TRUE)
  /\ zeroed' = IF StrictEqualsZero(quantity)
               THEN zeroed \cup (Ids(store) \ Ids(store'))
               ELSE zeroed

PatchUpdate(id, expiryDate) ==
  /\ Exchange(Request("PATCH", <<"update", id>>, [expiryDate |-> expiryDate]), <<>>, NoResponse, Thrown, TRUE)
  /\ UNCHANGED zeroed

(* The client has read the response on display. *)
Deliver ==
  /\ ~Idle
  /\ req' = NoRequest
  /\ res' = NoResponse
  /\ scanned' = <<>>
  /\ UNCHANGED <<lineage, store, nextId, zeroed, conc>>

Init ==
  /\ lineage \in {"numeric", "expiry"}
  /\ store = <<>>
  /\ nextId = 1
  /\ req = NoRequest
  /\ res = NoResponse
  /\ scanned = <<>>
  /\ zeroed = {}
  /\ conc = NoneInFlight

Next ==
  \/ \E body \in AddBodies, u \in UncaughtOutcomes : AddFood(body, u)
  \/ \E c \in Clients : AddFindOne(c)
  \/ \E c \in Clients : Respond(c)
  \/ \E s \in SearchInputs, u \in UpstreamInputs : SearchFood(s, u)
  \/ \E inventory \in ScanOrders(store) : GetInventory(inventory)
  \/ \E id \in IdInputs \cup {"all"}, m \in BOOLEAN : DeleteFood(id, m)
  \/ \E id \in IdInputs : GetFood(id)
  \/ \E p \in PutInputs, u \in UncaughtOutcomes : PutUpdate(p[1], p[2], u)
  \/ \E id \in IdInputs, e \in NewExpiryInputs : PatchUpdate(id, e)
  \/ Deliver

Spec == Init /\ [][Next]_vars

-----------------------------------------------------------------------------
(* Properties *)

(* The request just answered was served by handler h. *)
Handled(h) == ~Idle /\ Dispatch(lineage, req.method, req.path) = h

(* This step runs the handler of a request that answers before any await. *)
AnsweredAtOnce == req = NoRequest /\ req' # NoRequest /\ conc' = conc

(* This step runs the handler of a request up to its first await, store call *)
(* included, and suspends it as client c.                                    *)
SuspendedAs(c) == conc[c].pc = "idle" /\ conc'[c].pc # "idle"

(* The response the suspended handler h is bound to send, if it is known. *)
Planned(h) == IF h.pc = "answering" THEN h.res ELSE NoResponse

(* P(r, response) for the request r whose handler this step runs, response   *)
(* being what it sends for the store call of this step.                      *)
OnStart(P(_, _)) ==
  /\ AnsweredAtOnce => P(req', res')
  /\ \A c \in Clients : SuspendedAs(c) => P(conc'[c].req, Planned(conc'[c]))

SamePair(x, y) == x.name = y.name /\ x.brands = y.brands

(* C1: every inventory response holds exactly one view-entry per distinct      *)
(* (name, brands) pair of the records scanned, whose count is the number of    *)
(* scanned records with exactly that name and that brands value.               *)
C1_OneEntryPerPair ==
  (Handled("inventory") /\ res.status = 200) =>
    LET view == res.body
    IN /\ \A i \in 1..Len(scanned) :
            Cardinality({k \in 1..Len(view) : SamePair(view[k], scanned[i])}) = 1
       /\ \A k \in 1..Len(view) :
            view[k].count = Cardinality({i \in 1..Len(scanned) : SamePair(scanned[i], view[k])})

DeleteAllEmpties(r, response) ==
  (lineage = "expiry" /\ r = Request("DELETE", <<"delete", "all">>, NoBody)) =>
    IF Len(store) > 0
    THEN store' = <<>> /\ response.status = 200
    ELSE store' = <<>> /\ response.status = 404

(* C2: on the expiry server DELETE /api/food/delete/all empties a non-empty    *)
(* store with 200, and answers 404 when the store is already empty.            *)
C2_DeleteAll == [][OnStart(DeleteAllEmpties)]_vars

(* C3: GET /api/food/:id with a malformed id is answered 400. *)
C3_MalformedGetIs400 ==
  (Handled("getById") /\ ~isValid(ParamId(req.path))) => res.status = 400

(* A required field of the add body that is absent or blank. *)
IsBlank(x) == IsUndefined(x) \/ (IsString(x) /\ \A i \in 1..Len(x.v) : IsSpace(x.v[i]))

IsPresent(x) == IsString(x) /\ \E i \in 1..Len(x.v) : ~IsSpace(x.v[i])

MissingNameFlagged(r, response) ==
  (/\ r.method = "POST"
   /\ IsBlank(r.body.name)
   /\ IsBlank(r.body.brands) \/ IsPresent(r.body.brands)
   /\ IsBlank(r.body.quantity) \/ IsPresent(r.body.quantity)) =>
    /\ response.status = 400
    /\ response.body.missingFields.name = TRUE
    /\ response.body.missingFields.brands = IsPresent(r.body.brands)
    /\ response.body.missingFields.quantity = IsPresent(r.body.quantity)
    /\ store' = store

(* C4: POST /api/food/add with a blank name is answered 400 with               *)
(* missingFields.name true, missingFields.brands and missingFields.quantity    *)
(* telling whether the field was present, and nothing is inserted.             *)
C4_MissingNameFlag == [][OnStart(MissingNameFlagged)]_vars

(* Positions of the scanned array whose computed key is that of the entry. *)
SameKeyPositions(entry) == {i \in 1..Len(scanned) : Key(scanned[i]) = Key(entry)}

SamePairPositions(entry) == {i \in 1..Len(scanned) : SamePair(scanned[i], entry)}

(* C5 as claimed: the fields of a view-entry other than count are those of the *)
(* last scanned record with its grouping key.                                  *)
C5_LastRecordFields ==
  (Handled("inventory") /\ res.status = 200) =>
    \A k \in 1..Len(res.body) :
       /\ SamePairPositions(res.body[k]) # {}
       /\ WithoutCount(res.body[k]) = scanned[Greatest(SamePairPositions(res.body[k]))]

(* C5 amended: the fields of a view-entry other than count are those of the    *)
(* first scanned record whose key string name-brands is that of the entry.     *)
C5_FirstRecordFields ==
  (Handled("inventory") /\ res.status = 200) =>
    \A k \in 1..Len(res.body) :
       /\ SameKeyPositions(res.body[k]) # {}
       /\ WithoutCount(res.body[k]) = scanned[Least(SameKeyPositions(res.body[k]))]

C5_Witness ==
  /\ Handled("inventory")
  /\ res.status = 200
  /\ \E k \in 1..Len(res.body) : res.body[k].count = 2

(* The ObjectId named by the :id of the request just answered. *)
ParamOid(r) == ObjectId(ParamId(r.path)).v

IsPutUpdate(r) == r # NoRequest /\ r.method = "PUT" /\ Len(r.path) = 2 /\ r.path[1] = "update"

IsPatchUpdate(r) == r # NoRequest /\ r.method = "PATCH" /\ Len(r.path) = 2 /\ r.path[1] = "update"

IsDeleteById(r) == r # NoRequest /\ r.method = "DELETE" /\ Len(r.path) = 2 /\ r.path[1] = "delete"

IsGetById(r) ==
  r # NoRequest /\ r.method = "GET" /\ Len(r.path) = 1 /\ r.path[1] \notin {"search", "inventory"}

ZeroQuantityRemoves(r, response) ==
  (/\ lineage = "numeric"
   /\ IsPutUpdate(r)
   /\ r.body.quantity = Num(0)
   /\ isValid(ParamId(r.path))
   /\ HasId(store, ParamOid(r))) =>
    /\ response.status = 200
    /\ ~HasId(store', ParamOid(r))
    /\ Len(store') = Len(store) - 1

GetAfterZeroIs404(r, response) ==
  (/\ lineage = "numeric"
   /\ IsGetById(r)
   /\ isValid(ParamId(r.path))
   /\ ParamOid(r) \in zeroed) => response.status = 404

(* C6: on the numeric server PUT /api/food/update/:id with quantity 0 on an    *)
(* existing record removes the record and is answered 200, and every GET       *)
(* /api/food/:id on that id handled after the removal is answered 404.         *)
C6_ZeroQuantityRemoves ==
  /\ [][OnStart(ZeroQuantityRemoves)]_vars
  /\ [][OnStart(GetAfterZeroIs404)]_vars

(* A GET answered 404 on an id that a quantity-0 update removed, another       *)
(* record having been inserted since.                                          *)
C6_Witness ==
  /\ lineage = "numeric"
  /\ IsGetById(req)
  /\ isValid(ParamId(req.path))
  /\ ParamOid(req) \in zeroed
  /\ nextId > ParamOid(req) + 1
  /\ Len(store) > 0
  /\ res.status = 404

NegativeQuantityRejected(r, response) ==
  (/\ lineage = "numeric"
   /\ IsPutUpdate(r)
   /\ IsNumber(r.body.quantity)
   /\ Sign(r.body.quantity) < 0) =>
    (response.status = 400 /\ store' = store)

(* C7: on the numeric server PUT /api/food/update/:id with a negative quantity *)
(* is answered 400 for every id and leaves the store unchanged.                *)
C7_NegativeQuantityRejected == [][OnStart(NegativeQuantityRejected)]_vars

C7_Witness ==
  /\ lineage = "numeric"
  /\ IsPutUpdate(req)
  /\ req.body.quantity = Num(0 - 1)
  /\ isValid(ParamId(req.path))
  /\ HasId(store, ParamOid(req))
  /\ res.status = 400

DeleteByIdAnswers(r, response) ==
  IsDeleteById(r) =>
    IF ~isValid(ParamId(r.path))
    THEN response.status = 400 /\ store' = store
    ELSE IF ~HasId(store, ParamOid(r))
    THEN response.status = 404 /\ store' = store
    ELSE /\ response.status = 200
         /\ store' = RemoveAt(store, IndexOf(store, ParamOid(r)))

(* C8: DELETE /api/food/delete/:id is answered 400 for a malformed id, 404     *)
(* when no record has the id (store unchanged in both cases), and otherwise    *)
(* removes exactly that record and is answered 200.                            *)
C8_DeleteById == [][OnStart(DeleteByIdAnswers)]_vars

(* t is raw without its leading and trailing white space. *)
IsTrimOf(t, raw) ==
  /\ t # <<>>
  /\ ~IsSpace(t[1])
  /\ ~IsSpace(t[Len(t)])
  /\ \E i \in 0..Len(raw) :
       /\ i + Len(t) <= Len(raw)
       /\ SubSeq(raw, i + 1, i + Len(t)) = t
       /\ \A j \in (1..i) \cup ((i + Len(t) + 1)..Len(raw)) : IsSpace(raw[j])

(* doc holds the trimmed name, brands and quantity of the add body. *)
HoldsTrimmed(doc, body) ==
  /\ IsString(doc.name) /\ IsTrimOf(doc.name.v, body.name.v)
  /\ IsString(doc.brands) /\ IsTrimOf(doc.brands.v, body.brands.v)
  /\ IsString(doc.quantity) /\ IsTrimOf(doc.quantity.v, body.quantity.v)

AddInserts(r, response) ==
  (/\ r.method = "POST"
   /\ IsPresent(r.body.name)
   /\ IsPresent(r.body.brands)
   /\ IsPresent(r.body.quantity)) =>
    /\ Len(store') = Len(store) + 1
    /\ SubSeq(store', 1, Len(store)) = store
    /\ HoldsTrimmed(store'[Len(store')], r.body)
    /\ store'[Len(store')]._id \notin Ids(store)

(* This step is the re-read of the add handler suspended as client c. *)
Rereads(c) == conc[c].pc = "afterInsert" /\ conc'[c].pc = "answering"

(* C9: POST /api/food/add with name, brands and quantity present appends       *)
(* exactly one record holding the trimmed inputs under an id that no stored    *)
(* record has, and its re-read gives the 201 whose item is that stored record. *)
C9_AddInsertsTrimmed ==
  /\ [][OnStart(AddInserts)]_vars
  /\ [][\A c \in Clients :
          Rereads(c) =>
            /\ Planned(conc'[c]).status = 201
            /\ HasId(store, conc[c].insertedId)
            /\ Planned(conc'[c]).body.item = FindOne(store, conc[c].insertedId)]_vars

PatchFrame(r, response) ==
  (lineage = "expiry" /\ IsPatchUpdate(r)) =>
    /\ Len(store') = Len(store)
    /\ \A i \in 1..Len(store) :
         /\ DOMAIN store'[i] = DOMAIN store[i]
         /\ \A f \in (DOMAIN store[i]) \ {"expiryDate"} : store'[i][f] = store[i][f]
         /\ store'[i].expiryDate # store[i].expiryDate =>
              (isValid(ParamId(r.path)) /\ store[i]._id = ParamOid(r))
    /\ response.status = 200 =>
         /\ isValid(ParamId(r.path))
         /\ HasId(store', ParamOid(r))
         /\ FindOne(store', ParamOid(r)).expiryDate = r.body.expiryDate

(* C10: on the expiry server the store call of PATCH /api/food/update/:id      *)
(* keeps the stored ids and every field other than expiryDate of every record, *)
(* changes expiryDate of no record but the one with that id, and when it is    *)
(* answered 200 it has set that record's expiryDate to the supplied value.     *)
C10_PatchFrame == [][OnStart(PatchFrame)]_vars

C10_Witness ==
  /\ lineage = "expiry"
  /\ IsPatchUpdate(req)
  /\ res.status = 200
  /\ Len(store) = 2
  /\ req.body.expiryDate = Str(<<"d", "2">>)
  /\ FindOne(store, ParamOid(req)).expiryDate = Str(<<"d", "2">>)

-----------------------------------------------------------------------------
(* The aggregation on stores whose names and brands are made of digits and   *)
(* of the separator.                                                         *)

(* Number of records in the stores the aggregation is applied to. *)
MaxScan == 3

(* The (name, brands) pairs of the records: two pairs of digits, and two     *)
(* pairs that hold the separator and join to the same key.                   *)
AggPairs ==
  {<<<<"1">>, <<"1">>>>, <<<<"2">>, <<"1">>>>,
   <<<<"1">>, <<"1", "-", "1">>>>, <<<<"1", "-", "1">>, <<"1">>>>}

(* The stores that n successful adds of such names and brands leave. *)
AggStores(lin) ==
  UNION {{[i \in 1..n |-> NewDocument(lin, i, Str(f[i][1]), Undefined, Str(f[i][2]), Str(<<"1">>),
                                      Undefined, Undefined, Undefined, Undefined)] :
            f \in [1..n -> AggPairs]} : n \in 0..MaxScan}

InitAgg ==
  /\ lineage \in {"numeric", "expiry"}
  /\ store \in AggStores(lineage)
  /\ nextId = Len(store) + 1
  /\ req = NoRequest
  /\ res = NoResponse
  /\ scanned = <<>>
  /\ zeroed = {}
  /\ conc = NoneInFlight

NextAgg ==
  \/ \E inventory \in ScanOrders(store) : GetInventory(inventory)
  \/ \E c \in Clients : Respond(c)
  \/ Deliver

SpecAgg == InitAgg /\ [][NextAgg]_vars

(* C11: the view-entries of an inventory response appear in the order in which *)
(* their (name, brands) pairs first occur in the scanned array.                *)
C11_FirstOccurrenceOrder ==
  (Handled("inventory") /\ res.status = 200) =>
    \A k, l \in 1..Len(res.body) :
       k < l => /\ SamePairPositions(res.body[k]) # {}
                /\ SamePairPositions(res.body[l]) # {}
                /\ Least(SamePairPositions(res.body[k])) < Least(SamePairPositions(res.body[l]))

(* Digit-only names and brands, the numerically larger pair scanned first,  *)
(* then the smaller, then the larger again.                                  *)
C11_Witness ==
  /\ Handled("inventory")
  /\ res.status = 200
  /\ Len(scanned) = 3
  /\ SamePair(scanned[1], scanned[3])
  /\ ~SamePair(scanned[1], scanned[2])
  /\ Len(res.body) = 2
  /\ res.body[1].name = Str(<<"2">>) /\ res.body[1].brands = Str(<<"1">>)
  /\ res.body[1].count = 2
  /\ res.body[2].name = Str(<<"1">>) /\ res.body[2].brands = Str(<<"1">>)

(* C12: every request handled is answered: some status has been sent when the *)
(* handler is over.                                                            *)
C12_AlwaysResponds == ~Idle => res # NoResponse

-----------------------------------------------------------------------------
(* Concurrent requests, one per client, on a store that holds records. Each  *)
(* handler runs until its next await; a store call is atomic, and the steps  *)
(* of different requests interleave in any order. A client keeps the answer  *)
(* it got.                                                                   *)

ConcStore(lin) ==
  [i \in 1..ConcRecords |->
     NewDocument(lin, i, Str(<<"a">>), Undefined, Str(<<"a", "-", "a">>), Str(<<"1">>),
                 Undefined, Undefined, Undefined, Undefined)]

ConcIdInputs == {toHexString(oid) : oid \in OidSpace} \cup {"xyz"}

ConcRequests ==
  {Request("POST", <<"add">>,
           AddBody(Str(<<" ", "a", " ">>), Str(<<"a", "-", "a">>), Str(<<"1", " ">>),
                   NoOptional))}
  \cup {Request("DELETE", <<"delete", id>>, NoBody) : id \in ConcIdInputs}
  \cup {Request("PUT", <<"update", id>>, [quantity |-> q]) : id \in ConcIdInputs, q \in {Num(0), Num(2)}}

InitConc ==
  /\ lineage \in {"numeric", "expiry"}
  /\ store = ConcStore(lineage)
  /\ nextId = ConcRecords + 1
  /\ req = NoRequest
  /\ res = NoResponse
  /\ scanned = <<>>
  /\ zeroed = {}
  /\ conc = NoneInFlight

(* The answer client c got to its request r. *)
Done(r, response) == [pc |-> "done", req |-> r, res |-> response]

(* The effect of a handler run of outcome out for the request r of client c. *)
ConcEffect(c, r, out) ==
  /\ store' = out.store
  /\ nextId' = out.nextId
  /\ conc' = [conc EXCEPT ![c] =
                IF IsAwaiting(out.res)
                THEN Suspended(r, out.res, <<>>)
                ELSE Done(r, out.res)]

(* The handler of the request r of client c runs up to its first await,      *)
(* store call included, or to the response it sends before any await.        *)
ConcStart(c, r, uncaught, includeResultMetadata) ==
  /\ conc[c].pc = "idle"
  /\ Dispatch(lineage, r.method, r.path) = "add" => nextId <= MaxInserts
  /\ ConcEffect(c, r, Handle(lineage, store, nextId, r, <<>>, uncaught, Thrown,
                             includeResultMetadata))
  /\ UNCHANGED <<lineage, req, res, scanned, zeroed>>

(* The add handler resumes: findOne({_id: result.insertedId}). *)
ConcAddReread(c) ==
  /\ conc[c].pc = "afterInsert"
  /\ conc' = [conc EXCEPT ![c] =
                Answering(conc[c].req, AddReread(store, conc[c].insertedId), <<>>)]
  /\ UNCHANGED <<lineage, store, nextId, req, res, scanned, zeroed>>

(* A handler suspended at its last await resumes and sends its response. *)
ConcRespond(c) ==
  /\ conc[c].pc = "answering"
  /\ conc' = [conc EXCEPT ![c] = Done(conc[c].req, conc[c].res)]
  /\ UNCHANGED <<lineage, store, nextId, req, res, scanned, zeroed>>

NextConc ==
  \/ \E c \in Clients, r \in ConcRequests, u \in UncaughtOutcomes, m \in BOOLEAN :
       ConcStart(c, r, u, m)
  \/ \E c \in Clients : ConcAddReread(c)
  \/ \E c \in Clients : ConcRespond(c)

SpecConc == InitConc /\ [][NextConc]_vars

(* C13: an add answered 201 carries in item the record it inserted, never    *)
(* null, whatever the other requests did in between.                         *)
C13_ItemNeverNull ==
  \A c \in Clients :
    (conc[c].pc = "done" /\ conc[c].req.method = "POST" /\ conc[c].res.status = 201) =>
      /\ conc[c].res.body.item # Null
      /\ conc[c].res.body.item.name = Str(<<"a">>)

(* Request r asks for the removal of the record with id oid. *)
Removes(r, oid) ==
  \/ r.method = "DELETE" /\ r.path = <<"delete", toHexString(oid)>>
  \/ r.method = "PUT" /\ r.path = <<"update", toHexString(oid)>> /\ r.body.quantity = Num(0)

Removers(oid) == {c \in Clients : conc[c].pc # "idle" /\ Removes(conc[c].req, oid)}

(* C14: on the numeric server, once the concurrent requests that remove one   *)
(* record stored beforehand are all answered, exactly one of them got 200,    *)
(* every other got 404, and the record is absent.                             *)
C14_OneRemoverWins ==
  lineage = "numeric" =>
    \A oid \in 1..ConcRecords :
      (Removers(oid) # {} /\ \A c \in Removers(oid) : conc[c].pc = "done") =>
        /\ Cardinality({c \in Removers(oid) : conc[c].res.status = 200}) = 1
        /\ \A c \in Removers(oid) : conc[c].res.status \in {200, 404}
        /\ ~HasId(store, oid)

====
